---- MODULE Spec2Model ----
(***************************************************************************)
(* Rotation-equivariant layers (src/Nathan/layers.py,                      *)
(* src/Quentin/rototranslation.py) and the hourglass assembly              *)
(* (src/Nathan/hourglass_roto.py) as state machines.                       *)
(*                                                                         *)
(* A tensor is a record [shape, data]: shape is the sequence of axis       *)
(* sizes, data the entries in row-major order.  The shape-level operators  *)
(* (suffix _shape) follow the same code lines as the value-level ones but  *)
(* carry only the axis sizes, so that they cover every orientation count.  *)
(***************************************************************************)
EXTENDS Integers, Sequences, FiniteSets, TLC

VARIABLES layer, input, result, wanted, net, fwd

vars == <<layer, input, result, wanted, net, fwd>>

-----------------------------------------------------------------------------
(* Bounds of the model                                                     *)

MaxBatch == 2
MaxChannels == 2
MaxNtheta == 4
MaxKernelSize == 2
MaxSide == 3

-----------------------------------------------------------------------------
(* Values of the host runtime (torch) the code relies on                   *)

RECURSIVE Prod(_)
Prod(s) == IF s = <<>> THEN 1 ELSE Head(s) * Prod(Tail(s))

Ok(shape) == [status |-> "ok", shape |-> shape]
Raise(e) == [status |-> e, shape |-> <<>>]

\* torch.reshape: the element count must be kept.
reshape_shape(shape, newshape) ==
    IF Prod(newshape) = Prod(shape) THEN Ok(newshape) ELSE Raise("RuntimeError")

\* Output extent of F.conv2d along one axis.
conv_extent(n, k, stride, padding) ==
    IF padding = "same" THEN n ELSE ((n - k) \div stride) + 1

\* F.conv2d(input [B,C,H,W], weight [O,C,kH,kW], stride, padding), groups = 1.
conv2d_shape(inS, wS, stride, padding) ==
    IF Len(inS) # 4 \/ Len(wS) # 4 THEN Raise("RuntimeError")
    ELSE IF inS[2] # wS[2] THEN Raise("RuntimeError")
    ELSE IF padding = "same" /\ stride # 1 THEN Raise("RuntimeError")
    ELSE IF padding = "valid" /\ (inS[3] < wS[3] \/ inS[4] < wS[4]) THEN Raise("RuntimeError")
    ELSE Ok(<<inS[1], wS[1],
              conv_extent(inS[3], wS[3], stride, padding),
              conv_extent(inS[4], wS[4], stride, padding)>>)

-----------------------------------------------------------------------------
(* The rotation-operator call                                              *)

Periodicities == {"full", "half"}

\* Default arguments periodicity = 2*np.pi, diskMask = True.
DefaultPeriodicity == "full"
DefaultDiskMask == TRUE

\* The arguments a call hands to rotation.MultiRotationOperatorMatrixSparse.
RotCall(H, W, N, periodicity, diskMask) ==
    [size |-> <<H, W>>, orientations_nb |-> N,
     periodicity |-> periodicity, diskMask |-> diskMask]

\* How the rotation operator build ends for a kernel size and an orientation
\* count: it rejects a non-positive size and a non-positive count.
RotationOperatorOutcome(H, W, N) ==
    IF H <= 0 \/ W <= 0 THEN "InvalidShape"
    ELSE IF N <= 0 THEN "InvalidOrientationCount"
    ELSE "ok"

-----------------------------------------------------------------------------
(* Shape level: layers.py                                                  *)

\* rotate_lifting_kernels with the failure of the operator build swallowed.
rotate_lifting_kernels_shape_unchecked(kS, orientations_nb, periodicity, diskMask) ==
    LET channelsOUT == kS[1]
        channelsIN  == kS[2]
        kernelSizeH == kS[3]
        kernelSizeW == kS[4]
        mm     == <<orientations_nb * kernelSizeH * kernelSizeW, channelsIN * channelsOUT>>
        resh   == reshape_shape(mm, <<orientations_nb, kernelSizeH, kernelSizeW, channelsIN, channelsOUT>>)
        s      == resh.shape
    IN  [status |-> resh.status,
         shape  |-> IF resh.status = "ok" THEN <<s[1], s[5], s[4], s[2], s[3]>> ELSE <<>>,
         rot    |-> RotCall(kernelSizeH, kernelSizeW, orientations_nb, periodicity, diskMask)]

\* rotate_lifting_kernels: shape of the returned stack and the operator call.
rotate_lifting_kernels_shape(kS, orientations_nb, periodicity, diskMask) ==
    LET channelsOUT == kS[1]
        channelsIN  == kS[2]
        kernelSizeH == kS[3]
        kernelSizeW == kS[4]
        flat   == reshape_shape(kS, <<channelsIN * channelsOUT, kernelSizeH * kernelSizeW>>)
        \* sparse.mm: [N*H*W, H*W] x [H*W, cIN*cOUT]
        mm     == <<orientations_nb * kernelSizeH * kernelSizeW, channelsIN * channelsOUT>>
        resh   == reshape_shape(mm, <<orientations_nb, kernelSizeH, kernelSizeW, channelsIN, channelsOUT>>)
        s      == resh.shape
        built  == RotationOperatorOutcome(kernelSizeH, kernelSizeW, orientations_nb)
        rot    == RotCall(kernelSizeH, kernelSizeW, orientations_nb, periodicity, diskMask)
    IN  IF built # "ok" THEN [status |-> built, shape |-> <<>>, rot |-> rot]
        ELSE [status |-> resh.status,
              shape  |-> IF resh.status = "ok" THEN <<s[1], s[5], s[4], s[2], s[3]>> ELSE <<>>,
              rot    |-> rot]

\* Line 123 / 259: split the merged axis back into (orientation, channelsOUT).
split_orientation_swapped(convS, orientations_nb, channelsOUT) ==
    reshape_shape(convS, <<convS[1], channelsOUT, orientations_nb, convS[3], convS[4]>>)

split_orientation_shape(convS, orientations_nb, channelsOUT) ==
    reshape_shape(convS, <<convS[1], orientations_nb, channelsOUT, convS[3], convS[4]>>)

\* NN_z2_se2n._conv_forward on shapes.
NN_z2_se2n_forward_shape(inS, kS, Ntheta, stride, padding) ==
    LET stack == rotate_lifting_kernels_shape(kS, Ntheta, DefaultPeriodicity, DefaultDiskMask)
        orientations_nb == Ntheta
        channelsOUT == kS[1]
        k2d  == IF stack.status # "ok" THEN Raise(stack.status)
                ELSE reshape_shape(stack.shape, <<orientations_nb * channelsOUT, kS[2], kS[3], kS[4]>>)
        conv == IF k2d.status = "ok" THEN conv2d_shape(inS, k2d.shape, stride, padding) ELSE k2d
        out  == IF conv.status = "ok"
                THEN split_orientation_shape(conv.shape, orientations_nb, channelsOUT)
                ELSE conv
    IN  [status |-> out.status, shape |-> out.shape, rot |-> stack.rot]

\* rotate_gconv_kernels: shape of the returned stack and the operator call.
rotate_gconv_kernels_shape(kS, periodicity, diskMask) ==
    LET orientations_nb == kS[1]
        channelsOUT == kS[2]
        channelsIN  == kS[3]
        kernelSizeH == kS[4]
        kernelSizeW == kS[5]
        mm   == <<orientations_nb * kernelSizeH * kernelSizeW,
                  orientations_nb * channelsOUT * channelsIN>>
        resh == reshape_shape(mm, <<orientations_nb, kernelSizeH, kernelSizeW,
                                     orientations_nb, channelsOUT, channelsIN>>)
        built == RotationOperatorOutcome(kernelSizeH, kernelSizeW, orientations_nb)
        rot   == RotCall(kernelSizeH, kernelSizeW, orientations_nb, periodicity, diskMask)
    IN  IF built # "ok" THEN [status |-> built, shape |-> <<>>, rot |-> rot]
        ELSE [status |-> resh.status,
              \* torch.stack of N tensors [cOUT, cIN, N, H, W]
              shape  |-> <<orientations_nb, channelsOUT, channelsIN, orientations_nb,
                           kernelSizeH, kernelSizeW>>,
              rot    |-> rot]

\* NN_se2n_se2n._conv_forward on shapes.
NN_se2n_se2n_forward_shape(inS, kS, stride, padding) ==
    LET orientations_nb == kS[1]
        channelsOUT == kS[2]
        channelsIN  == kS[3]
        stack == rotate_gconv_kernels_shape(kS, DefaultPeriodicity, DefaultDiskMask)
        in2d  == IF Len(inS) < 5 THEN Raise("IndexError")
                 ELSE reshape_shape(inS, <<inS[1], orientations_nb * channelsIN, inS[4], inS[5]>>)
        k2d   == reshape_shape(stack.shape, <<orientations_nb * channelsOUT,
                                               orientations_nb * channelsIN, kS[4], kS[5]>>)
        conv  == IF stack.status # "ok" THEN Raise(stack.status)
                 ELSE IF in2d.status # "ok" THEN in2d
                 ELSE IF k2d.status # "ok" THEN k2d
                 ELSE conv2d_shape(in2d.shape, k2d.shape, stride, padding)
        out   == IF conv.status = "ok"
                 THEN split_orientation_shape(conv.shape, orientations_nb, channelsOUT)
                 ELSE conv
    IN  [status |-> out.status, shape |-> out.shape, rot |-> stack.rot]

\* Constructors: the fields __init__ stores.  data = <<>> stands for the
\* randomly initialised entries, which the shape level does not read.
NN_z2_se2n_init(in_c, out_c, kernel_size, Ntheta, stride, padding) ==
    [cls |-> "NN_z2_se2n", built |-> "ok",
     Ntheta |-> Ntheta, stride |-> stride, padding |-> padding,
     kernel |-> [shape |-> <<out_c, in_c, kernel_size, kernel_size>>, data |-> <<>>]]

\* torch.randn((Ntheta, ...)) refuses a negative dimension; a zero one gives
\* an empty kernel.
NN_se2n_se2n_init(in_c, out_c, kernel_size, Ntheta, stride, padding) ==
    IF Ntheta < 0
    THEN [cls |-> "NN_se2n_se2n", built |-> "RuntimeError", Ntheta |-> Ntheta]
    ELSE [cls |-> "NN_se2n_se2n", built |-> "ok", stride |-> stride, padding |-> padding,
          kernel |-> [shape |-> <<Ntheta, out_c, in_c, kernel_size, kernel_size>>,
                      data |-> <<>>]]

\* forward(input) of either layer class.
forward_shape(l, inS) ==
    IF l.cls = "NN_z2_se2n"
    THEN NN_z2_se2n_forward_shape(inS, l.kernel.shape, l.Ntheta, l.stride, l.padding)
    ELSE NN_se2n_se2n_forward_shape(inS, l.kernel.shape, l.stride, l.padding)

-----------------------------------------------------------------------------
(* Specification of the layers at shape level                              *)

NoResult == [status |-> "none"]
NoNet == [status |-> "none"]
NoFwd == [status |-> "none"]


\* The periodicity / diskMask choices of the configuration surface; wanted is
\* the choice made for the layer.  Neither __init__ takes them as a parameter.
Options == [periodicity : Periodicities, diskMask : BOOLEAN]

Strides == {1, 2}
\* Orientation counts a caller may pass, the non-positive ones included.
Nthetas == (-1)..MaxNtheta
Paddings == {"valid", "same"}

\* Input widths tried with height H: square and one column wider.
Widths(H) == {H, H + 1}

ShapeInit ==
    /\ \E in_c \in 1..MaxChannels, out_c \in 1..MaxChannels,
          kernel_size \in 1..MaxKernelSize, Ntheta \in Nthetas,
          stride \in Strides, padding \in Paddings :
          \/ /\ layer = NN_z2_se2n_init(in_c, out_c, kernel_size, Ntheta, stride, padding)
             /\ \E B \in 1..MaxBatch, C \in 1..MaxChannels, H \in 1..MaxSide :
                \E W \in Widths(H) :
                   input = [shape |-> <<B, C, H, W>>, data |-> <<>>]
          \/ /\ layer = NN_se2n_se2n_init(in_c, out_c, kernel_size, Ntheta, stride, padding)
             /\ \E B \in 1..MaxBatch, O \in 1..MaxNtheta, C \in 1..MaxChannels,
                   H \in 1..MaxSide :
                \E W \in Widths(H) :
                   input = [shape |-> <<B, O, C, H, W>>, data |-> <<>>]
    /\ wanted \in Options
    /\ result = NoResult
    /\ net = NoNet
    /\ fwd = NoFwd

\* What a forward call leaves behind: the outcome, the output shape and the
\* arguments it handed to the rotation operator builder.
ShapeResult(l, x) ==
    LET r == forward_shape(l, x.shape)
    IN  [status |-> r.status, cls |-> l.cls, output |-> r.shape, rot |-> r.rot]

\* forward of the lifting layer on a Z2 feature map [B, C, H, W].
LiftForwardShape ==
    /\ layer.cls = "NN_z2_se2n"
    /\ result' = ShapeResult(layer, input)
    /\ UNCHANGED <<layer, input, wanted, net, fwd>>

\* forward of the group convolution on a 5-axis feature map [B, O, C, H, W].
GconvForwardShape ==
    /\ layer.cls = "NN_se2n_se2n"
    /\ layer.built = "ok"
    /\ result' = ShapeResult(layer, input)
    /\ UNCHANGED <<layer, input, wanted, net, fwd>>

ShapeNext == LiftForwardShape \/ GconvForwardShape

ShapeSpec == ShapeInit /\ [][ShapeNext]_vars

-----------------------------------------------------------------------------
(* Claims on the shapes                                                    *)

\* The orientation count the layer was configured with.
ConfiguredN(l) == IF l.cls = "NN_z2_se2n" THEN l.Ntheta ELSE l.kernel.shape[1]

\* channelsIn of the layer's kernel and its spatial size.
KernelIn(l) == IF l.cls = "NN_z2_se2n" THEN l.kernel.shape[2] ELSE l.kernel.shape[3]
KernelSide(l) == IF l.cls = "NN_z2_se2n" THEN l.kernel.shape[3] ELSE l.kernel.shape[4]

\* The input has the axes the layer is configured for, and the convolution
\* the layer is configured with is one the runtime supports on it.
ValidInput(l, x) ==
    LET n == Len(x.shape)
    IN  /\ x.shape[n - 2] = KernelIn(l)
        /\ l.cls = "NN_se2n_se2n" => x.shape[2] = ConfiguredN(l)
        /\ \/ l.padding = "same" /\ l.stride = 1
           \/ l.padding = "valid" /\ x.shape[n - 1] >= KernelSide(l)
                                  /\ x.shape[n] >= KernelSide(l)

\* C1: on every valid input the forward of either layer returns a 5-axis
\* tensor whose axis 1 has exactly the configured orientation count and whose
\* batch axis has the input's batch size.
C1_OrientationAxisSize ==
    /\ (result.status # "none" /\ ConfiguredN(layer) >= 1 /\ ValidInput(layer, input))
           => result.status = "ok"
    /\ result.status = "ok" =>
          /\ Len(result.output) = 5
          /\ result.output[2] = ConfiguredN(layer)
          /\ result.output[1] = input.shape[1]

C1_Witness ==
    /\ result.status = "ok"
    /\ layer.cls = "NN_se2n_se2n"
    /\ ValidInput(layer, input)
    /\ ConfiguredN(layer) = 3
    /\ layer.kernel.shape[2] = 2
    /\ input.shape[1] = 2

\* C2: the group convolution fails on every input whose orientation axis
\* differs from the kernel's N or whose channel axis differs from channelsIn.
C2_ShapeMismatchRaised ==
    (/\ layer.cls = "NN_se2n_se2n"
     /\ result.status # "none"
     /\ \/ input.shape[2] # ConfiguredN(layer)
        \/ input.shape[3] # KernelIn(layer))
    => result.status # "ok"

\* C10: the periodicity and diskMask chosen for the layer are the ones every
\* forward hands to the rotation operator builder.
C10_OptionsHonoured ==
    result.status = "ok" =>
        /\ result.rot.periodicity = wanted.periodicity
        /\ result.rot.diskMask = wanted.diskMask

\* The orientation count the caller asked for, also when construction failed.
RequestedN(l) ==
    IF l.cls = "NN_z2_se2n" THEN l.Ntheta
    ELSE IF l.built # "ok" THEN l.Ntheta
    ELSE l.kernel.shape[1]

\* How constructing the layer and running it ended so far.
Ended(l, r) == IF l.built # "ok" THEN l.built ELSE r.status

-----------------------------------------------------------------------------
(* Tensors with entries: the runtime's reshape, permute, sparse product    *)
(* and convolution                                                         *)

Tensor(shape, data) == [shape |-> shape, data |-> data]

Numel(t) == Prod(t.shape)

\* Row-major offset of the 0-based index tuple idx in a tensor of this shape.
RECURSIVE Ravel(_, _)
Ravel(shape, idx) ==
    IF shape = <<>> THEN 0
    ELSE LET n == Len(shape)
         IN  Ravel(SubSeq(shape, 1, n - 1), SubSeq(idx, 1, n - 1)) * shape[n] + idx[n]

\* The 0-based index tuple at row-major offset n.
RECURSIVE Unravel(_, _)
Unravel(shape, n) ==
    IF shape = <<>> THEN <<>>
    ELSE LET m == Len(shape)
         IN  Append(Unravel(SubSeq(shape, 1, m - 1), n \div shape[m]), n % shape[m])

\* t[idx]
At(t, idx) == t.data[Ravel(t.shape, idx) + 1]

\* torch.reshape keeps the entries in row-major order.
reshape(t, newshape) == Tensor(newshape, t.data)

\* Tensor.permute(perm), perm 1-based here: axis i of the result is axis
\* perm[i] of t.
permute(t, perm) ==
    LET newshape == [i \in 1..Len(perm) |-> t.shape[perm[i]]]
        inv == [j \in 1..Len(perm) |-> CHOOSE i \in 1..Len(perm) : perm[i] = j]
    IN  Tensor(newshape,
               [n \in 1..Prod(newshape) |->
                   LET idx == Unravel(newshape, n - 1)
                   IN  At(t, [j \in 1..Len(perm) |-> idx[inv[j]]])])

\* torch.transpose(t, 0, 1) of a matrix.
transpose(t) == permute(t, <<2, 1>>)

RECURSIVE SumOver(_, _)
\* Sum of the values f[e], e in the finite set S.
SumOver(S, f) ==
    IF S = {} THEN 0
    ELSE LET e == CHOOSE x \in S : TRUE
         IN  f[e] + SumOver(S \ {e}, f)

\* torch.sparse.mm(sparse_coo_tensor(idx, vals, size), dense): entries is the
\* set of [row, col, val] the index and value lists hold.
sparse_mm(entries, rows, dense) ==
    LET cols == dense.shape[2]
        byRow == [r \in 0..(rows - 1) |-> {e \in entries : e.row = r}]
    IN  Tensor(<<rows, cols>>,
               [n \in 1..(rows * cols) |->
                   LET r == (n - 1) \div cols
                       c == (n - 1) % cols
                   IN  SumOver(byRow[r],
                               [e \in byRow[r] |-> e.val * At(dense, <<e.col, c>>)])])

\* Zero padding F.conv2d puts before the first row / column.
pad_before(k, padding) == IF padding = "same" THEN (k - 1) \div 2 ELSE 0

RECURSIVE SumTo(_, _)
\* f[0] + ... + f[n-1]
SumTo(n, f) == IF n = 0 THEN 0 ELSE f[n - 1] + SumTo(n - 1, f)

\* One output entry of F.conv2d (a cross-correlation, zero padded): the sum
\* over the taps (c, i, j) of the filter o.
conv2d_entry(inp, w, stride, padding, b, o, y, x) ==
    LET C  == w.shape[2]
        kH == w.shape[3]
        kW == w.shape[4]
        y0 == y * stride - pad_before(kH, padding)
        x0 == x * stride - pad_before(kW, padding)
        term == [t \in 0..(C * kH * kW - 1) |->
                   LET c  == t \div (kH * kW)
                       yy == y0 + ((t \div kW) % kH)
                       xx == x0 + (t % kW)
                   IN  IF yy < 0 \/ yy >= inp.shape[3] \/ xx < 0 \/ xx >= inp.shape[4]
                       THEN 0
                       ELSE inp.data[((b * inp.shape[2] + c) * inp.shape[3] + yy)
                                        * inp.shape[4] + xx + 1]
                            * w.data[o * C * kH * kW + t + 1]]
    IN  SumTo(C * kH * kW, term)

\* F.conv2d with entries.
conv2d(inp, w, stride, padding) ==
    LET s == conv2d_shape(inp.shape, w.shape, stride, padding)
    IN  IF s.status # "ok" THEN [status |-> s.status, shape |-> <<>>, data |-> <<>>]
        ELSE [status |-> "ok", shape |-> s.shape,
              data |-> [n \in 1..Prod(s.shape) |->
                          LET i == Unravel(s.shape, n - 1)
                          IN  conv2d_entry(inp, w, stride, padding, i[1], i[2], i[3], i[4])]]

-----------------------------------------------------------------------------
(* The rotation operator builder (rotation.MultiRotationOperatorMatrixSparse,*)
(* not among the sources: after section 4.1 of the specification)          *)

\* The angle span in quarter turns.
QuarterTurns(periodicity) == IF periodicity = "full" THEN 4 ELSE 2

\* The orientation counts whose angles k * periodicity / N are all whole
\* quarter turns, so that the interpolation weights are exactly 0 or 1.
ExactNthetas(periodicity) == {N \in 1..4 : QuarterTurns(periodicity) % N = 0}

\* Inverse rotation by q quarter turns of a point given relative to the centre.
RotateInv(u, v, q) ==
    CASE q % 4 = 0 -> <<u, v>>
      [] q % 4 = 1 -> <<v, -u>>
      [] q % 4 = 2 -> <<-u, -v>>
      [] q % 4 = 3 -> <<-v, u>>

\* The (row, col, weight) entries of the operator for a square H x W grid:
\* row (k*H + i)*W + j is output pixel (i, j) of the copy rotated by angle
\* index k, col the source pixel it is read from.  Coordinates relative to
\* the centre are doubled to stay whole.  With the disk mask, pixels farther
\* from the centre than the inscribed circle's radius get no entry.
MultiRotationOperatorMatrixSparse(H, W, N, periodicity, diskMask) ==
    LET entry(k, i, j) ==
            LET u == 2 * i - (H - 1)
                v == 2 * j - (W - 1)
                src == RotateInv(u, v, (k * QuarterTurns(periodicity)) \div N)
            IN  [row |-> (k * H + i) * W + j,
                 col |-> ((src[1] + (H - 1)) \div 2) * W + ((src[2] + (W - 1)) \div 2),
                 val |-> 1]
        inDisk(i, j) ==
            LET u == 2 * i - (H - 1)
                v == 2 * j - (W - 1)
            IN  u * u + v * v <= H * H
    IN  {entry(k, i, j) : <<k, i, j>> \in
            {t \in (0..(N - 1)) \X (0..(H - 1)) \X (0..(W - 1)) :
                 ~diskMask \/ inDisk(t[2], t[3])}}

-----------------------------------------------------------------------------
(* Value level: the lifting convolution                                    *)

\* rotate_lifting_kernels with the two spatial axes exchanged in the final
\* permute.
rotate_lifting_kernels_hw_swapped(kernel, orientations_nb, periodicity, diskMask) ==
    LET channelsOUT == kernel.shape[1]
        channelsIN  == kernel.shape[2]
        kernelSizeH == kernel.shape[3]
        kernelSizeW == kernel.shape[4]
        kernel_flat == transpose(reshape(kernel, <<channelsIN * channelsOUT,
                                                   kernelSizeH * kernelSizeW>>))
        entries == MultiRotationOperatorMatrixSparse(kernelSizeH, kernelSizeW,
                                                     orientations_nb, periodicity, diskMask)
        set_of_rotated_kernels ==
            sparse_mm(entries, orientations_nb * kernelSizeH * kernelSizeW, kernel_flat)
    IN  permute(reshape(set_of_rotated_kernels,
                        <<orientations_nb, kernelSizeH, kernelSizeW, channelsIN, channelsOUT>>),
                <<1, 5, 4, 3, 2>>)

\* layers.py rotate_lifting_kernels: kernel [cOUT, cIN, H, W] to the stack
\* [N, cOUT, cIN, H, W].
rotate_lifting_kernels(kernel, orientations_nb, periodicity, diskMask) ==
    LET channelsOUT == kernel.shape[1]
        channelsIN  == kernel.shape[2]
        kernelSizeH == kernel.shape[3]
        kernelSizeW == kernel.shape[4]
        kernel_flat == transpose(reshape(kernel, <<channelsIN * channelsOUT,
                                                   kernelSizeH * kernelSizeW>>))
        entries == MultiRotationOperatorMatrixSparse(kernelSizeH, kernelSizeW,
                                                     orientations_nb, periodicity, diskMask)
        set_of_rotated_kernels ==
            sparse_mm(entries, orientations_nb * kernelSizeH * kernelSizeW, kernel_flat)
    IN  permute(reshape(set_of_rotated_kernels,
                        <<orientations_nb, kernelSizeH, kernelSizeW, channelsIN, channelsOUT>>),
                <<1, 5, 4, 2, 3>>)

\* rototranslation.py rotate_lifting_kernels: the same product, reshaped
\* directly to [N, cOUT, cIN, H, W].
Q_rotate_lifting_kernels(kernel, orientations_nb, periodicity, diskMask) ==
    LET channelsOUT == kernel.shape[1]
        channelsIN  == kernel.shape[2]
        kernelSizeH == kernel.shape[3]
        kernelSizeW == kernel.shape[4]
        kernel_flat == transpose(reshape(kernel, <<channelsIN * channelsOUT,
                                                   kernelSizeH * kernelSizeW>>))
        entries == MultiRotationOperatorMatrixSparse(kernelSizeH, kernelSizeW,
                                                     orientations_nb, periodicity, diskMask)
        set_of_rotated_kernels ==
            sparse_mm(entries, orientations_nb * kernelSizeH * kernelSizeW, kernel_flat)
    IN  reshape(set_of_rotated_kernels,
                <<orientations_nb, channelsOUT, channelsIN, kernelSizeH, kernelSizeW>>)

\* The merge with channelsOUT as the slow axis and orientation as the fast one.
kernels_as_if_2D_swapped(kernel_stack, orientations_nb, kernel) ==
    reshape(permute(kernel_stack, <<2, 1, 3, 4, 5>>),
            <<orientations_nb * kernel.shape[1], kernel.shape[2],
              kernel.shape[3], kernel.shape[4]>>)

\* Merge (orientation, channelsOUT) of the stack into the conv output-channel
\* axis: layers.py line 109, rototranslation.py line 119.
kernels_as_if_2D(kernel_stack, orientations_nb, kernel) ==
    reshape(kernel_stack, <<orientations_nb * kernel.shape[1], kernel.shape[2],
                            kernel.shape[3], kernel.shape[4]>>)

\* Split the conv output-channel axis back: layers.py line 123,
\* rototranslation.py line 138.
split_orientation(conv, orientations_nb, channelsOUT) ==
    reshape(conv, <<conv.shape[1], orientations_nb, channelsOUT, conv.shape[3], conv.shape[4]>>)

\* The outcome of a forward: status, output tensor, the kernel stack built
\* for it and the rotation operator call made.
Outcome(cls, conv, out, stack, rot) ==
    [status |-> conv.status, cls |-> cls,
     output |-> IF conv.status = "ok" THEN out ELSE Tensor(<<>>, <<>>),
     stack |-> stack, rot |-> rot]

\* _conv_forward with F.conv2d called without the layer's stride and padding.
NN_z2_se2n_conv_forward_nopad(input_tensor, kernel, Ntheta, stride, padding) ==
    LET kernel_stack == rotate_lifting_kernels(kernel, Ntheta, DefaultPeriodicity, DefaultDiskMask)
        orientations_nb == Ntheta
        channelsOUT == kernel.shape[1]
        conv == conv2d(input_tensor, kernels_as_if_2D(kernel_stack, orientations_nb, kernel),
                       1, "valid")
    IN  Outcome("NN_z2_se2n", conv, split_orientation(conv, orientations_nb, channelsOUT),
                kernel_stack,
                RotCall(kernel.shape[3], kernel.shape[4], Ntheta,
                        DefaultPeriodicity, DefaultDiskMask))

\* NN_z2_se2n._conv_forward.
NN_z2_se2n_conv_forward(input_tensor, kernel, Ntheta, stride, padding) ==
    LET kernel_stack == rotate_lifting_kernels(kernel, Ntheta, DefaultPeriodicity, DefaultDiskMask)
        orientations_nb == Ntheta
        channelsOUT == kernel.shape[1]
        conv == conv2d(input_tensor, kernels_as_if_2D(kernel_stack, orientations_nb, kernel),
                       stride, padding)
    IN  Outcome("NN_z2_se2n", conv, split_orientation(conv, orientations_nb, channelsOUT),
                kernel_stack,
                RotCall(kernel.shape[3], kernel.shape[4], Ntheta,
                        DefaultPeriodicity, DefaultDiskMask))

\* rototranslation.py z2_se2n: F.conv2d is called without stride or padding.
z2_se2n(input_tensor, kernel, orientations_nb, periodicity, diskMask, padding) ==
    LET kernel_stack == Q_rotate_lifting_kernels(kernel, orientations_nb, periodicity, diskMask)
        channelsOUT == kernel.shape[1]
        conv == conv2d(input_tensor, kernels_as_if_2D(kernel_stack, orientations_nb, kernel),
                       1, "valid")
    IN  Outcome("z2_se2n", conv, split_orientation(conv, orientations_nb, channelsOUT),
                kernel_stack,
                RotCall(kernel.shape[3], kernel.shape[4], orientations_nb,
                        periodicity, diskMask))

-----------------------------------------------------------------------------
(* Specification of the lifting convolution with entries                   *)

\* Entry patterns, used for the kernel and the input alike: all ones, and
\* 1, 2, 3, ... in row-major order (all entries distinct).
Patterns == {"ones", "ramp"}

Fill(shape, pattern) ==
    Tensor(shape, [n \in 1..Prod(shape) |->
                     IF pattern = "ones" THEN 1 ELSE n])

ValChannels == 2
ValBatch == 2
KernelSides == {1, 2, 3}
InputSides == {3, 5}

\* A lifting layer as __init__ leaves it, its randomly drawn kernel being one
\* of the patterns.
NN_z2_se2n_new(in_c, out_c, kernel_size, Ntheta, stride, padding, pattern) ==
    [cls |-> "NN_z2_se2n", Ntheta |-> Ntheta, stride |-> stride, padding |-> padding,
     kernel |-> Fill(<<out_c, in_c, kernel_size, kernel_size>>, pattern)]

\* The arguments of a z2_se2n call other than the input.
z2_se2n_args(in_c, out_c, kernel_size, orientations_nb, periodicity, diskMask, padding, pattern) ==
    [cls |-> "z2_se2n", orientations_nb |-> orientations_nb,
     periodicity |-> periodicity, diskMask |-> diskMask, padding |-> padding,
     kernel |-> Fill(<<out_c, in_c, kernel_size, kernel_size>>, pattern)]

LiftInit ==
    /\ \E in_c \in 1..ValChannels, out_c \in 1..ValChannels, kernel_size \in KernelSides,
          pattern \in Patterns, padding \in Paddings :
          /\ \/ \E Ntheta \in ExactNthetas(DefaultPeriodicity), stride \in Strides :
                   /\ layer = NN_z2_se2n_new(in_c, out_c, kernel_size, Ntheta, stride,
                                             padding, pattern)
                   /\ wanted = [periodicity |-> DefaultPeriodicity,
                                diskMask |-> DefaultDiskMask]
             \/ \E periodicity \in Periodicities, diskMask \in BOOLEAN :
                \E orientations_nb \in ExactNthetas(periodicity) :
                   /\ layer = z2_se2n_args(in_c, out_c, kernel_size, orientations_nb,
                                           periodicity, diskMask, padding, pattern)
                   /\ wanted = [periodicity |-> periodicity, diskMask |-> diskMask]
          /\ \E B \in 1..ValBatch, side \in InputSides :
                input = Fill(<<B, in_c, side, side>>, pattern)
    /\ result = NoResult
    /\ net = NoNet
    /\ fwd = NoFwd

\* forward(input) of the lifting layer.
LiftForward ==
    /\ layer.cls = "NN_z2_se2n"
    /\ result' = NN_z2_se2n_conv_forward(input, layer.kernel, layer.Ntheta,
                                         layer.stride, layer.padding)
    /\ UNCHANGED <<layer, input, wanted, net, fwd>>

\* A call of the functional lifting layer.
LiftCall ==
    /\ layer.cls = "z2_se2n"
    /\ result' = z2_se2n(input, layer.kernel, layer.orientations_nb,
                         layer.periodicity, layer.diskMask, layer.padding)
    /\ UNCHANGED <<layer, input, wanted, net, fwd>>

LiftNext == LiftForward \/ LiftCall

LiftSpec == LiftInit /\ [][LiftNext]_vars

-----------------------------------------------------------------------------
(* Claims on the lifting convolution                                       *)

\* Stride and padding of the convolution the call issues.
CallStride(l) == IF l.cls = "NN_z2_se2n" THEN l.stride ELSE 1
CallPadding(l) == IF l.cls = "NN_z2_se2n" THEN l.padding ELSE "valid"
CallN(l) == IF l.cls = "NN_z2_se2n" THEN l.Ntheta ELSE l.orientations_nb

\* The slice [k, o, :, :, :] of a kernel stack, as a one-filter weight.
StackSlice(stack, k, o) ==
    LET cI == stack.shape[3]
        kH == stack.shape[4]
        kW == stack.shape[5]
    IN  Tensor(<<1, cI, kH, kW>>,
               [n \in 1..(cI * kH * kW) |->
                   stack.data[((k * stack.shape[2] + o) * cI * kH * kW) + n]])

\* The index tuples of a tensor of this shape.
Indices(shape) == {Unravel(shape, n) : n \in 0..(Prod(shape) - 1)}

\* Spatial rotation by q quarter turns of every H x H plane (the last two
\* axes) of t, read the way the rotation operator reads a kernel.
SpatialRotate(t, q) ==
    LET r == Len(t.shape)
        H == t.shape[r - 1]
        W == t.shape[r]
    IN  Tensor(t.shape,
               [n \in 1..Prod(t.shape) |->
                   LET idx == Unravel(t.shape, n - 1)
                       src == RotateInv(2 * idx[r - 1] - (H - 1), 2 * idx[r] - (W - 1), q)
                   IN  At(t, [idx EXCEPT ![r - 1] = (src[1] + (H - 1)) \div 2,
                                         ![r] = (src[2] + (W - 1)) \div 2])])

\* Output pixel (y, x) whose window does not reach the zero padding.
Interior(l, y, x) ==
    LET k == l.kernel.shape[3]
        p == pad_before(k, CallPadding(l))
        inside(c, n) == c * CallStride(l) - p >= 0 /\ c * CallStride(l) - p + (k - 1) <= n - 1
    IN  inside(y, input.shape[3]) /\ inside(x, input.shape[4])

\* The layer's output on the input rotated by angle index k.
RotatedRun(k) ==
    NN_z2_se2n_conv_forward(
        SpatialRotate(input, (k * QuarterTurns(DefaultPeriodicity)) \div layer.Ntheta),
        layer.kernel, layer.Ntheta, layer.stride, layer.padding).output

\* The cases in which the rotated copies are exact and the sampling grid of
\* the convolution is symmetric about the centre of the input.
ExactCase ==
    /\ layer.cls = "NN_z2_se2n"
    /\ result.status = "ok"
    /\ layer.stride = 1
    /\ layer.padding = "valid" \/ layer.kernel.shape[3] % 2 = 1

\* C3 as stated: shifting the orientation axis of the output on the rotated
\* input by k (in one direction or the other) gives back the output on the
\* unrotated input at the interior pixels.
C3_ShiftReproducesOutput ==
    (ExactCase /\ layer.Ntheta = 4) =>
        \A k \in 0..(layer.Ntheta - 1) :
            \E d \in {1, -1} :
                \A i \in Indices(result.output.shape) :
                    Interior(layer, i[4], i[5]) =>
                        At(RotatedRun(k), [i EXCEPT ![2] = (i[2] + d * k) % layer.Ntheta])
                            = At(result.output, i)

\* np.roll(t, k, axis=1): entry m of the orientation axis comes from entry
\* (m - k) mod N.
RollOrientation(t, k) ==
    Tensor(t.shape,
           [n \in 1..Prod(t.shape) |->
               LET idx == Unravel(t.shape, n - 1)
               IN  At(t, [idx EXCEPT ![2] = (idx[2] - k) % t.shape[2]])])

\* C3 amended: the output on the input rotated by angle index k is the output
\* on the unrotated input, spatially rotated by angle index k and with its
\* orientation axis rolled by k (orientation j moves to (j + k) mod N), at
\* every pixel.
C3_Equivariance ==
    ExactCase =>
        \A k \in 0..(layer.Ntheta - 1) :
            RotatedRun(k) =
                RollOrientation(
                    SpatialRotate(result.output,
                                  (k * QuarterTurns(DefaultPeriodicity)) \div layer.Ntheta),
                    k)

C3_Witness ==
    /\ ExactCase
    /\ layer.Ntheta = 4
    /\ layer.kernel.shape = <<2, 1, 3, 3>>
    /\ layer.kernel.data[1] # layer.kernel.data[2]
    /\ layer.padding = "same"
    /\ input.data[1] # input.data[2]

\* The end-to-end scenario of C4.
C4_Scenario ==
    /\ layer.cls = "NN_z2_se2n"
    /\ layer.kernel = Fill(<<2, 1, 3, 3>>, "ones")
    /\ layer.Ntheta = 4
    /\ layer.padding = "same"
    /\ layer.stride = 1
    /\ input.shape[3] = 5 /\ input.shape[4] = 5
    /\ input = Fill(input.shape, "ones")
    /\ result.status # "none"

\* C4: in the scenario the output is [batch, 4, 2, 5, 5] and every entry
\* away from the zero-padded border is 9.
C4_AllOnesGivesNine ==
    C4_Scenario =>
        /\ result.status = "ok"
        /\ result.output.shape = <<input.shape[1], 4, 2, 5, 5>>
        /\ \A i \in Indices(result.output.shape) :
               (i[4] \in 1..3 /\ i[5] \in 1..3) => At(result.output, i) = 9

C4_Witness == C4_Scenario /\ input.shape[1] = 2

\* C5: with one orientation and the default arguments the returned stack is
\* the kernel, entry by entry.
C5_SingleOrientationIdentity ==
    (/\ result.status # "none"
     /\ CallN(layer) = 1
     /\ result.rot.periodicity = DefaultPeriodicity
     /\ result.rot.diskMask = DefaultDiskMask)
    => /\ result.stack.shape = <<1>> \o layer.kernel.shape
       /\ result.stack.data = layer.kernel.data

\* C6: output[b, k, o] is the convolution of input[b] with the stack slice
\* [k, o]: orientation and channel indices are not mixed.
C6_OrientationChannelOrder ==
    result.status = "ok" =>
        LET S == result.output.shape
        IN  \A k \in 0..(S[2] - 1), o \in 0..(S[3] - 1) :
                LET w == StackSlice(result.stack, k, o)
                IN  \A b \in 0..(S[1] - 1), y \in 0..(S[4] - 1), x \in 0..(S[5] - 1) :
                        At(result.output, <<b, k, o, y, x>>) =
                            conv2d_entry(input, w, CallStride(layer), CallPadding(layer),
                                         b, 0, y, x)

C6_Witness ==
    /\ result.status = "ok"
    /\ layer.cls = "NN_z2_se2n"
    /\ layer.Ntheta = 4
    /\ layer.kernel.shape = <<2, 2, 3, 3>>
    /\ layer.kernel.data[1] # layer.kernel.data[2]
    /\ input.shape[1] = 2
    /\ input.data[1] # input.data[2]

\* Entry (y, x) of the k-th block of the rotation operator applied to the
\* flattened plane K[o, i, :, :].
RotatedPlaneEntry(entries, K, o, i, k, y, x) ==
    LET H == K.shape[3]
        W == K.shape[4]
        S == {e \in entries : e.row = (k * H + y) * W + x}
    IN  SumOver(S, [e \in S |-> e.val * At(K, <<o, i, e.col \div W, e.col % W>>)])

\* C13: the slice [k, o, i] of the stack a forward built is the k-th block of
\* the rotation operator applied to kernel[o, i]: channels and spatial
\* positions are not exchanged.
C13_KernelIndexIntegrity ==
    result.status # "none" =>
        LET K == layer.kernel
            cO == K.shape[1]
            cI == K.shape[2]
            H == K.shape[3]
            W == K.shape[4]
            N == CallN(layer)
            entries == MultiRotationOperatorMatrixSparse(H, W, N, result.rot.periodicity,
                                                         result.rot.diskMask)
        IN  /\ result.stack.shape = <<N, cO, cI, H, W>>
            /\ \A k \in 0..(N - 1), o \in 0..(cO - 1), i \in 0..(cI - 1),
                  y \in 0..(H - 1), x \in 0..(W - 1) :
                  At(result.stack, <<k, o, i, y, x>>) =
                      RotatedPlaneEntry(entries, K, o, i, k, y, x)

-----------------------------------------------------------------------------
(* The hourglass: hourglass_roto.py build_hourglass_roto                   *)

MaxScales == 4

\* Kernel size and orientation count of the equivariant decoder blocks.
RotoKernelSize == 5
RotoNtheta == 8

\* A channel argument is an int or a list.
IntArg(v) == [isint |-> TRUE, v |-> v, l |-> <<>>]
ListArg(l) == [isint |-> FALSE, v |-> 0, l |-> l]

\* Lines 15-17 with an int wrapped in a one-entry list instead of broadcast.
per_scale_single(a, num_scales) == IF a.isint THEN <<a.v>> ELSE a.l

\* Lines 15-17: [v]*num_scales if isinstance(v, int) else v.
per_scale(a, num_scales) == IF a.isint THEN [i \in 1..num_scales |-> a.v] ELSE a.l

\* list[i] with Python's 0-based index.
Get(list, i) == list[i + 1]

Block(cls, in_c, out_c, kernel_size, Ntheta) ==
    [cls |-> cls, in_c |-> in_c, out_c |-> out_c, kernel_size |-> kernel_size,
     Ntheta |-> Ntheta]

\* Lines 35-48: the encoder of iteration i.
encoder_attr(i, cfg, down) ==
    IF i = 0
    THEN Block("encoder_block", cfg.input_depth, Get(down, 0), cfg.filter_size_down, 0)
    ELSE IF i = 3
    THEN Block("encoder_block", Get(down, i - 1), Get(down, i), cfg.filter_size_down, 0)
    ELSE Block("encoder_block", Get(down, i - 1), Get(down, i), cfg.filter_size_down, 0)

\* Lines 37, 42, 47: whether iteration i creates a skip block.
has_skip(skip, i) == Get(skip, i) # 0

\* Lines 38, 43, 48 with the skip block sized for the previous scale's encoder.
skip_attr_previous_scale(i, cfg, down, skip) ==
    IF i = 0
    THEN Block("conv_block", Get(down, 0), Get(skip, i), cfg.filter_skip_size, 0)
    ELSE Block("conv_block", Get(down, i - 1), Get(skip, i), cfg.filter_skip_size, 0)

\* Lines 38, 43, 48: the skip block of iteration i.
skip_attr(i, cfg, down, skip) ==
    IF i = 0
    THEN Block("conv_block", Get(down, 0), Get(skip, i), cfg.filter_skip_size, 0)
    ELSE Block("conv_block", Get(down, i), Get(skip, i), cfg.filter_skip_size, 0)

\* Lines 52-71 with the bottleneck built as roto_decoder_block when it has
\* no skip.
decoder_attr_roto_bottleneck(i, cfg, down, up, skip) ==
    IF i = cfg.num_scales - 1
    THEN IF Get(skip, i) # 0
         THEN Block("decoder_block", Get(down, i) + Get(skip, i), Get(up, i),
                    cfg.filter_size_up, 0)
         ELSE Block("roto_decoder_block", Get(down, i) + Get(skip, i), Get(up, i),
                    RotoKernelSize, RotoNtheta)
    ELSE IF i # 1
    THEN IF Get(skip, i) # 0
         THEN Block("decoder_block", Get(up, i + 1) + Get(skip, i), Get(up, i),
                    cfg.filter_size_up, 0)
         ELSE Block("decoder_noskip_block", Get(up, i + 1) + Get(skip, i), Get(up, i),
                    cfg.filter_size_up, 0)
    ELSE IF Get(skip, i) # 0
         THEN Block("roto_decoder_skip_block", Get(up, i + 1) + Get(skip, i), Get(up, i),
                    RotoKernelSize, RotoNtheta)
         ELSE Block("roto_decoder_block", Get(up, i + 1) + Get(skip, i), Get(up, i),
                    RotoKernelSize, RotoNtheta)

\* Lines 52-71: the decoder of iteration i.
decoder_attr(i, cfg, down, up, skip) ==
    IF i = cfg.num_scales - 1
    THEN IF Get(skip, i) # 0
         THEN Block("decoder_block", Get(down, i) + Get(skip, i), Get(up, i),
                    cfg.filter_size_up, 0)
         ELSE Block("decoder_noskip_block", Get(down, i) + Get(skip, i), Get(up, i),
                    cfg.filter_size_up, 0)
    ELSE IF i # 1
    THEN IF Get(skip, i) # 0
         THEN Block("decoder_block", Get(up, i + 1) + Get(skip, i), Get(up, i),
                    cfg.filter_size_up, 0)
         ELSE Block("decoder_noskip_block", Get(up, i + 1) + Get(skip, i), Get(up, i),
                    cfg.filter_size_up, 0)
    ELSE IF Get(skip, i) # 0
         THEN Block("roto_decoder_skip_block", Get(up, i + 1) + Get(skip, i), Get(up, i),
                    RotoKernelSize, RotoNtheta)
         ELSE Block("roto_decoder_block", Get(up, i + 1) + Get(skip, i), Get(up, i),
                    RotoKernelSize, RotoNtheta)

\* The attribute 'e'+str(n), 's'+str(n), 'd'+str(n).
Attr(letter, n) == <<letter, n>>

Failed(e) == [status |-> e]

\* __init__: the attributes it sets, or the error it ends with.  The loop
\* reads the lists at indices up to num_scales - 1 and line 76 reads
\* num_channels_up[0].
build_hourglass_roto_init(cfg) ==
    LET down == per_scale(cfg.num_channels_down, cfg.num_scales)
        up   == per_scale(cfg.num_channels_up, cfg.num_scales)
        skip == per_scale(cfg.num_channels_skip, cfg.num_scales)
        n    == cfg.num_scales
        names == {Attr("e", i + 1) : i \in 0..(n - 1)}
                 \cup {Attr("s", i + 1) : i \in {j \in 0..(n - 1) : has_skip(skip, j)}}
                 \cup {Attr("d", i + 1) : i \in 0..(n - 1)}
    IN  IF ~(Len(down) = Len(up) /\ Len(up) = Len(skip)) THEN Failed("AssertionError")
        ELSE IF n > Len(down) \/ Len(up) = 0 THEN Failed("IndexError")
        ELSE [status |-> "ok",
              num_channels_skip |-> skip,
              need_sigmoid |-> cfg.need_sigmoid,
              num_scales |-> n,
              stride |-> IF cfg.pooling THEN 1 ELSE 2,
              blocks |-> [a \in names |->
                            CASE a[1] = "e" -> encoder_attr(a[2] - 1, cfg, down)
                              [] a[1] = "s" -> skip_attr(a[2] - 1, cfg, down, skip)
                              [] a[1] = "d" -> decoder_attr(a[2] - 1, cfg, down, up, skip)],
              conv |-> Block("Conv2d", Get(up, 0), cfg.output_depth, 1, 0),
              act |-> "Sigmoid"]

-----------------------------------------------------------------------------
(* forward of the hourglass, one block call per step                       *)

\* A feature map in flight: the call that produced it (0: the network input)
\* and its channel count.
Feature(src, ch) == [src |-> src, ch |-> ch]

\* The placeholder line 94 appends for a scale without skip.
NoSkip == Feature(-1, 0)

Idle ==
    [pc |-> "idle", i |-> 0, inputs |-> NoSkip, encoder |-> <<>>, skip |-> <<>>,
     decoder |-> <<>>, calls |-> <<>>, c |-> NoSkip, output |-> NoSkip]

\* The record of calling block a on args, and the feature map it returns.
CallOf(a, block, args) == [attr |-> a, cls |-> block.cls, args |-> args]
Returned(calls, block) == Feature(Len(calls) + 1, block.out_c)

\* list[-1]
Last(list) == list[Len(list)]

\* Lines 84-87 with every encoder fed the network input.
encoder_args_from_input(f, i) == <<f.inputs>>

\* Lines 84-87: the argument of encoder i.
encoder_args(f, i) == IF i = 0 THEN <<f.inputs>> ELSE <<Get(f.encoder, i - 1)>>

\* Lines 98-107 with the skip feature handed to every decoder.
decoder_args_always_skip(f, n, i) ==
    IF i = n
    THEN <<Last(f.encoder), Last(f.skip)>>
    ELSE <<Get(f.decoder, n - i - 1), Get(f.skip, i - 1)>>

\* Lines 98-107: the arguments of decoder i (1-based), n = num_scales.
decoder_args(f, n, i) ==
    IF i = n
    THEN IF Get(net.num_channels_skip, i - 1) # 0
         THEN <<Last(f.encoder), Last(f.skip)>>
         ELSE <<Last(f.encoder)>>
    ELSE IF Get(net.num_channels_skip, i - 1) # 0
         THEN <<Get(f.decoder, n - i - 1), Get(f.skip, i - 1)>>
         ELSE <<Get(f.decoder, n - i - 1)>>

\* Lines 110-113 with the sigmoid applied whatever need_sigmoid says.
head_calls_always_sigmoid(need_sigmoid, calls, c) ==
    Append(calls, [attr |-> Attr("act", 0), cls |-> "Sigmoid", args |-> <<c>>])

\* Lines 110-113: the calls after the 1x1 convolution returned c.
head_calls(need_sigmoid, calls, c) ==
    IF need_sigmoid
    THEN Append(calls, [attr |-> Attr("act", 0), cls |-> "Sigmoid", args |-> <<c>>])
    ELSE calls

\* The value forward returns: the last call's result if the sigmoid ran, else c.
head_output(calls, before, c) ==
    IF Len(calls) > before THEN Feature(Len(calls), c.ch) ELSE c

\* forward(inputs) is entered.
HGForward ==
    /\ net.status = "ok"
    /\ fwd.pc \in {"idle", "done"}
    /\ fwd' = [Idle EXCEPT !.pc = "encoder",
                           !.inputs = Feature(0, net.blocks[Attr("e", 1)].in_c)]
    /\ UNCHANGED <<layer, input, result, wanted, net>>

\* One iteration of the loop of lines 83-87.
EncoderStep ==
    /\ fwd.pc = "encoder"
    /\ LET i == fwd.i
           a == Attr("e", i + 1)
           b == net.blocks[a]
       IN  fwd' = [fwd EXCEPT
                     !.calls = Append(@, CallOf(a, b, encoder_args(fwd, i))),
                     !.encoder = Append(@, Returned(fwd.calls, b)),
                     !.i = IF i + 1 < net.num_scales THEN i + 1 ELSE 0,
                     !.pc = IF i + 1 < net.num_scales THEN "encoder" ELSE "skip"]
    /\ UNCHANGED <<layer, input, result, wanted, net>>

\* One iteration of the loop of lines 90-94.
SkipStep ==
    /\ fwd.pc = "skip"
    /\ LET i == fwd.i
           a == Attr("s", i + 1)
           more == i + 1 < net.num_scales
       IN  IF Get(net.num_channels_skip, i) # 0
           THEN fwd' = [fwd EXCEPT
                     !.calls = Append(@, CallOf(a, net.blocks[a], <<Get(fwd.encoder, i)>>)),
                     !.skip = Append(@, Returned(fwd.calls, net.blocks[a])),
                     !.i = IF more THEN i + 1 ELSE net.num_scales,
                     !.pc = IF more THEN "skip" ELSE "decoder"]
           ELSE fwd' = [fwd EXCEPT
                     !.skip = Append(@, NoSkip),
                     !.i = IF more THEN i + 1 ELSE net.num_scales,
                     !.pc = IF more THEN "skip" ELSE "decoder"]
    /\ UNCHANGED <<layer, input, result, wanted, net>>

\* One iteration of the loop of lines 97-107, i running from num_scales to 1.
DecoderStep ==
    /\ fwd.pc = "decoder"
    /\ LET i == fwd.i
           a == Attr("d", i)
           b == net.blocks[a]
       IN  fwd' = [fwd EXCEPT
                     !.calls = Append(@, CallOf(a, b, decoder_args(fwd, net.num_scales, i))),
                     !.decoder = Append(@, Returned(fwd.calls, b)),
                     !.i = i - 1,
                     !.pc = IF i - 1 >= 1 THEN "decoder" ELSE "head"]
    /\ UNCHANGED <<layer, input, result, wanted, net>>

\* Lines 109-115: the 1x1 convolution, the optional sigmoid, the return.
HeadStep ==
    /\ fwd.pc = "head"
    /\ LET convCalls == Append(fwd.calls,
                               CallOf(Attr("conv", 0), net.conv, <<Last(fwd.decoder)>>))
           c == Returned(fwd.calls, net.conv)
           calls == head_calls(net.need_sigmoid, convCalls, c)
       IN  fwd' = [fwd EXCEPT !.calls = calls,
                              !.c = c,
                              !.output = head_output(calls, Len(convCalls), c),
                              !.pc = "done"]
    /\ UNCHANGED <<layer, input, result, wanted, net>>

-----------------------------------------------------------------------------
(* Specification of the hourglass                                          *)

ChannelChoices == {2, 3}
SkipChoices == {0, 4}
FilterSizeDefault == 3
FilterSkipSizeDefault == 1
InputDepthDefault == 32
OutputDepths == {1, 3}

\* Lists of length n over S.
ListsOf(S, n) == [1..n -> S]

HGConfigs ==
    [input_depth : {InputDepthDefault},
     output_depth : OutputDepths,
     num_channels_down : {IntArg(v) : v \in ChannelChoices}
                         \cup {ListArg([i \in 1..n |-> i + 1]) : n \in 1..MaxScales},
     num_channels_up : {IntArg(v) : v \in ChannelChoices}
                       \cup {ListArg([i \in 1..n |-> i + 4]) : n \in 1..MaxScales},
     num_channels_skip : {IntArg(v) : v \in SkipChoices}
                         \cup UNION {{ListArg(l) : l \in ListsOf(SkipChoices, n)} :
                                        n \in 1..MaxScales},
     filter_size_down : {FilterSizeDefault},
     filter_size_up : {FilterSizeDefault},
     filter_skip_size : {FilterSkipSizeDefault},
     num_scales : 1..MaxScales,
     need_sigmoid : BOOLEAN,
     pooling : BOOLEAN]

\* wanted keeps the arguments the constructor was called with.
HGInit ==
    /\ \E cfg \in HGConfigs :
          /\ wanted = cfg
          /\ net = build_hourglass_roto_init(cfg)
    /\ fwd = Idle
    /\ layer = NoResult
    /\ input = NoResult
    /\ result = NoResult

HGNext == HGForward \/ EncoderStep \/ SkipStep \/ DecoderStep \/ HeadStep

HGSpec == HGInit /\ [][HGNext]_vars

-----------------------------------------------------------------------------
(* Claims on the hourglass                                                 *)

EquivariantClasses == {"roto_encoder_block", "roto_decoder_block", "roto_decoder_skip_block"}

\* Scale n (1-based) has an Equivariant Block as encoder or decoder.
UsesEquivariant(n) ==
    \/ net.blocks[Attr("e", n)].cls \in EquivariantClasses
    \/ net.blocks[Attr("d", n)].cls \in EquivariantClasses

EquivariantScales == {n \in 1..net.num_scales : UsesEquivariant(n)}

CallsTo(a) == {j \in 1..Len(fwd.calls) : fwd.calls[j].attr = a}

NoSkipClasses == {"decoder_noskip_block", "roto_decoder_block"}
WithSkipClasses == {"decoder_block", "roto_decoder_skip_block"}

\* C8: a scale with skip count 0 has no skip block, the no-skip decoder
\* variant, and forward neither calls a skip block for it nor hands its
\* decoder a skip feature; a scale with a non-zero count has the skip block,
\* which forward applies to that scale's encoder output and whose result it
\* hands to that scale's decoder.
C8_SkipPath ==
    net.status = "ok" =>
        \A n \in 1..net.num_scales :
            IF net.num_channels_skip[n] = 0
            THEN /\ Attr("s", n) \notin DOMAIN net.blocks
                 /\ net.blocks[Attr("d", n)].cls \in NoSkipClasses
                 /\ CallsTo(Attr("s", n)) = {}
                 /\ \A j \in CallsTo(Attr("d", n)) : Len(fwd.calls[j].args) = 1
            ELSE /\ Attr("s", n) \in DOMAIN net.blocks
                 /\ net.blocks[Attr("d", n)].cls \in WithSkipClasses
                 /\ fwd.pc \in {"decoder", "head", "done"} =>
                       /\ Cardinality(CallsTo(Attr("s", n))) = 1
                       /\ \A j \in CallsTo(Attr("s", n)) :
                              fwd.calls[j].args = <<fwd.encoder[n]>>
                 /\ \A j \in CallsTo(Attr("d", n)) :
                       /\ Len(fwd.calls[j].args) = 2
                       /\ fwd.calls[j].args[2].src \in CallsTo(Attr("s", n))
                 /\ fwd.pc \in {"head", "done"} => CallsTo(Attr("d", n)) # {}

C8_Witness ==
    /\ net.status = "ok"
    /\ fwd.pc = "done"
    /\ net.num_scales = 3
    /\ net.num_channels_skip = <<4, 0, 4>>

\* C9: the value forward returns is the 1x1 convolution of the last decoder
\* output, with output_depth channels, passed through the sigmoid exactly
\* when need_sigmoid is set.
C9_Head ==
    fwd.pc = "done" =>
        LET n == Len(fwd.calls)
            convAt == IF net.need_sigmoid THEN n - 1 ELSE n
        IN  /\ fwd.calls[convAt].attr = Attr("conv", 0)
            /\ fwd.calls[convAt].cls = "Conv2d"
            /\ net.conv.kernel_size = 1
            /\ fwd.calls[convAt].args = <<Last(fwd.decoder)>>
            /\ fwd.calls[Last(fwd.decoder).src].attr = Attr("d", 1)
            /\ Last(fwd.decoder).src = convAt - 1
            /\ fwd.output.ch = net.conv.out_c
            /\ IF net.need_sigmoid
               THEN /\ fwd.calls[n].cls = "Sigmoid"
                    /\ fwd.calls[n].args = <<Feature(convAt, net.conv.out_c)>>
                    /\ fwd.output.src = n
               ELSE /\ fwd.output = Feature(convAt, net.conv.out_c)
                    /\ \A j \in 1..n : fwd.calls[j].cls # "Sigmoid"

C9_Witness ==
    /\ fwd.pc = "done"
    /\ ~net.need_sigmoid
    /\ net.num_scales = 3
    /\ net.conv.out_c = 3

-----------------------------------------------------------------------------
(* Claims on the hourglass configuration                                   *)

\* Number of entries the caller gave for a channel argument; an int stands
\* for one entry per scale.
ArgLen(a, n) == IF a.isint THEN n ELSE Len(a.l)

\* The three channel arguments of the call.
ChannelArgs == {wanted.num_channels_down, wanted.num_channels_up, wanted.num_channels_skip}

\* An int argument reached every scale with the same value.
Broadcast ==
    LET n == net.num_scales
    IN  /\ wanted.num_channels_skip.isint =>
              net.num_channels_skip = [i \in 1..n |-> wanted.num_channels_skip.v]
        /\ wanted.num_channels_down.isint =>
              \A i \in 1..n : net.blocks[Attr("e", i)].out_c = wanted.num_channels_down.v
        /\ wanted.num_channels_up.isint =>
              \A i \in 1..n : net.blocks[Attr("d", i)].out_c = wanted.num_channels_up.v

\* C12 as stated: an int is broadcast, and construction succeeds only when
\* each of the three lists has exactly numScales entries.
C12_ExactlyNumScales ==
    net.status = "ok" =>
        /\ Broadcast
        /\ \A a \in ChannelArgs : ArgLen(a, wanted.num_scales) = wanted.num_scales

\* C12 amended: an int is broadcast to one equal entry per scale; construction
\* succeeds exactly when the three lists have one common length that is at
\* least numScales (entries beyond numScales are never read), fails with
\* AssertionError when the lengths differ and with IndexError when the common
\* length is below numScales.
C12_CommonLengthAtLeastNumScales ==
    LET n == wanted.num_scales
        lens == {ArgLen(a, n) : a \in ChannelArgs}
    IN  /\ net.status = "ok" <=> (Cardinality(lens) = 1 /\ \A l \in lens : l >= n)
        /\ net.status = "AssertionError" <=> Cardinality(lens) > 1
        /\ net.status = "IndexError" <=> (Cardinality(lens) = 1 /\ \E l \in lens : l < n)
        /\ net.status = "ok" => Broadcast

C12_Witness ==
    /\ net.status = "ok"
    /\ wanted.num_scales = 3
    /\ wanted.num_channels_down.isint
    /\ ~wanted.num_channels_up.isint
    /\ ~wanted.num_channels_skip.isint
    /\ fwd.pc = "done"

-----------------------------------------------------------------------------
(* Value level: the group convolution                                      *)

\* t[..., idx, ...] with idx on the (1-based) axis, which is dropped.
select(t, axis, idx) ==
    LET r == Len(t.shape)
        newshape == [j \in 1..(r - 1) |-> IF j < axis THEN t.shape[j] ELSE t.shape[j + 1]]
    IN  Tensor(newshape,
               [n \in 1..Prod(newshape) |->
                   LET i == Unravel(newshape, n - 1)
                   IN  At(t, [j \in 1..r |-> IF j < axis THEN i[j]
                                              ELSE IF j = axis THEN idx
                                              ELSE i[j - 1]])])

\* np.roll(np.identity(N), s, axis=1): entry [a, b] is identity[a, (b - s) mod N].
roll_matrix(N, s) ==
    Tensor(<<N, N>>,
           [n \in 1..(N * N) |->
               IF (n - 1) \div N = (((n - 1) % N) - s) % N THEN 1 ELSE 0])

\* torch.matmul of two matrices.
matmul(a, b) ==
    LET rows == a.shape[1]
        mid  == a.shape[2]
        cols == b.shape[2]
    IN  Tensor(<<rows, cols>>,
               [n \in 1..(rows * cols) |->
                   LET r == (n - 1) \div cols
                       c == (n - 1) % cols
                   IN  SumTo(mid, [m \in 0..(mid - 1) |->
                                     a.data[r * mid + m + 1] * b.data[m * cols + c + 1]])])

RECURSIVE Concat(_)
\* The entries of a sequence of tensors, one after the other.
Concat(ts) == IF ts = <<>> THEN <<>> ELSE Head(ts).data \o Concat(Tail(ts))

\* torch.stack of tensors of one shape along a new first axis.
stack(ts) == Tensor(<<Len(ts)>> \o ts[1].shape, Concat(ts))

\* layers.py rotate_gconv_kernels: kernel [N, cOUT, cIN, H, W] to the family
\* [N, cOUT, cIN, N, H, W].
rotate_gconv_kernels(kernel, periodicity, diskMask) ==
    LET orientations_nb == kernel.shape[1]
        channelsOUT == kernel.shape[2]
        channelsIN  == kernel.shape[3]
        kernelSizeH == kernel.shape[4]
        kernelSizeW == kernel.shape[5]
        kernel_flat == transpose(reshape(kernel, <<orientations_nb * channelsOUT * channelsIN,
                                                   kernelSizeH * kernelSizeW>>))
        entries == MultiRotationOperatorMatrixSparse(kernelSizeH, kernelSizeW,
                                                     orientations_nb, periodicity, diskMask)
        kernels_planar_rotated ==
            permute(reshape(sparse_mm(entries, orientations_nb * kernelSizeH * kernelSizeW,
                                      kernel_flat),
                            <<orientations_nb, kernelSizeH, kernelSizeW,
                              orientations_nb, channelsOUT, channelsIN>>),
                    <<4, 5, 6, 1, 2, 3>>)
        kernels_temp(orientation) ==
            permute(
                reshape(
                    matmul(reshape(permute(select(kernels_planar_rotated, 4, orientation),
                                           <<2, 3, 4, 5, 1>>),
                                   <<kernelSizeH * kernelSizeW * channelsIN * channelsOUT,
                                     orientations_nb>>),
                           roll_matrix(orientations_nb, orientation)),
                    <<channelsOUT, channelsIN, kernelSizeH, kernelSizeW, orientations_nb>>),
                <<1, 2, 5, 3, 4>>)
    IN  stack([orientation \in 1..orientations_nb |-> kernels_temp(orientation - 1)])

\* rototranslation.py rotate_gconv_kernels: kernel [N, cOUT, cIN, H, W] to
\* the family laid out [N, H, W, cIN, cOUT, N].
Q_rotate_gconv_kernels(kernel, periodicity, diskMask) ==
    LET orientations_nb == kernel.shape[1]
        channelsOUT == kernel.shape[2]
        channelsIN  == kernel.shape[3]
        kernelSizeH == kernel.shape[4]
        kernelSizeW == kernel.shape[5]
        kernel_flat == transpose(reshape(kernel, <<orientations_nb * channelsIN * channelsOUT,
                                                   kernelSizeH * kernelSizeW>>))
        entries == MultiRotationOperatorMatrixSparse(kernelSizeH, kernelSizeW,
                                                     orientations_nb, periodicity, diskMask)
        kernels_planar_rotated ==
            reshape(sparse_mm(entries, orientations_nb * kernelSizeH * kernelSizeW, kernel_flat),
                    <<orientations_nb, kernelSizeH, kernelSizeW,
                      orientations_nb, channelsIN, channelsOUT>>)
        kernels_temp(orientation) ==
            reshape(
                matmul(reshape(permute(select(kernels_planar_rotated, 1, orientation),
                                       <<1, 2, 4, 5, 3>>),
                               <<kernelSizeH * kernelSizeW * channelsIN * channelsOUT,
                                 orientations_nb>>),
                       roll_matrix(orientations_nb, orientation)),
                <<kernelSizeH, kernelSizeW, channelsIN, channelsOUT, orientations_nb>>)
    IN  stack([orientation \in 1..orientations_nb |-> kernels_temp(orientation - 1)])

\* Line 249 / 269: merge (orientation, channelsIN) of the input.
input_tensor_as_if_2D(input_tensor, orientations_nb, channelsIN) ==
    reshape(input_tensor, <<input_tensor.shape[1], orientations_nb * channelsIN,
                            input_tensor.shape[4], input_tensor.shape[5]>>)

\* _conv_forward reusing the kernel stack of the previous call when there is one.
NN_se2n_se2n_conv_forward_cached(input_tensor, kernel, stride, padding) ==
    LET orientations_nb == kernel.shape[1]
        channelsOUT == kernel.shape[2]
        channelsIN  == kernel.shape[3]
        kernel_stack == IF result.status = "ok" THEN result.stack
                        ELSE rotate_gconv_kernels(kernel, DefaultPeriodicity, DefaultDiskMask)
        in2d == input_tensor_as_if_2D(input_tensor, orientations_nb, channelsIN)
        k2d  == reshape(kernel_stack, <<orientations_nb * channelsOUT,
                                        orientations_nb * channelsIN,
                                        kernel.shape[4], kernel.shape[5]>>)
        conv == conv2d(in2d, k2d, stride, padding)
    IN  Outcome("NN_se2n_se2n", conv, split_orientation(conv, orientations_nb, channelsOUT),
                kernel_stack,
                RotCall(kernel.shape[4], kernel.shape[5], orientations_nb,
                        DefaultPeriodicity, DefaultDiskMask))

\* NN_se2n_se2n._conv_forward.
NN_se2n_se2n_conv_forward(input_tensor, kernel, stride, padding) ==
    LET orientations_nb == kernel.shape[1]
        channelsOUT == kernel.shape[2]
        channelsIN  == kernel.shape[3]
        kernel_stack == rotate_gconv_kernels(kernel, DefaultPeriodicity, DefaultDiskMask)
        in2d == input_tensor_as_if_2D(input_tensor, orientations_nb, channelsIN)
        k2d  == reshape(kernel_stack, <<orientations_nb * channelsOUT,
                                        orientations_nb * channelsIN,
                                        kernel.shape[4], kernel.shape[5]>>)
        conv == conv2d(in2d, k2d, stride, padding)
    IN  Outcome("NN_se2n_se2n", conv, split_orientation(conv, orientations_nb, channelsOUT),
                kernel_stack,
                RotCall(kernel.shape[4], kernel.shape[5], orientations_nb,
                        DefaultPeriodicity, DefaultDiskMask))

\* se2n_se2n with its padding argument passed on to F.conv2d.
se2n_se2n_padded(input_tensor, kernel, periodicity, diskMask, padding) ==
    LET orientations_nb == kernel.shape[1]
        channelsOUT == kernel.shape[2]
        channelsIN  == kernel.shape[3]
        kernel_stack == Q_rotate_gconv_kernels(kernel, periodicity, diskMask)
        in2d == input_tensor_as_if_2D(input_tensor, orientations_nb, channelsIN)
        k2d  == permute(reshape(permute(kernel_stack, <<2, 3, 4, 5, 1, 6>>),
                                <<kernel.shape[4], kernel.shape[5],
                                  orientations_nb * channelsIN,
                                  orientations_nb * channelsOUT>>),
                        <<4, 3, 1, 2>>)
        conv == conv2d(in2d, k2d, 1, padding)
    IN  Outcome("se2n_se2n", conv, split_orientation(conv, orientations_nb, channelsOUT),
                kernel_stack,
                RotCall(kernel.shape[4], kernel.shape[5], orientations_nb,
                        periodicity, diskMask))

\* rototranslation.py se2n_se2n: returns the output and the kernel family;
\* F.conv2d is called without stride or padding.
se2n_se2n(input_tensor, kernel, periodicity, diskMask, padding) ==
    LET orientations_nb == kernel.shape[1]
        channelsOUT == kernel.shape[2]
        channelsIN  == kernel.shape[3]
        kernel_stack == Q_rotate_gconv_kernels(kernel, periodicity, diskMask)
        in2d == input_tensor_as_if_2D(input_tensor, orientations_nb, channelsIN)
        k2d  == permute(reshape(permute(kernel_stack, <<2, 3, 4, 5, 1, 6>>),
                                <<kernel.shape[4], kernel.shape[5],
                                  orientations_nb * channelsIN,
                                  orientations_nb * channelsOUT>>),
                        <<4, 3, 1, 2>>)
        conv == conv2d(in2d, k2d, 1, "valid")
    IN  Outcome("se2n_se2n", conv, split_orientation(conv, orientations_nb, channelsOUT),
                kernel_stack,
                RotCall(kernel.shape[4], kernel.shape[5], orientations_nb,
                        periodicity, diskMask))

-----------------------------------------------------------------------------
(* Specification of the group convolution with entries                     *)

GconvKernelSides == {1, 2, 3}
GconvInputSides == {3, 4}

\* A group convolution layer as __init__ leaves it, its randomly drawn kernel
\* being one of the patterns.
NN_se2n_se2n_new(in_c, out_c, kernel_size, Ntheta, stride, padding, pattern) ==
    [cls |-> "NN_se2n_se2n", stride |-> stride, padding |-> padding,
     kernel |-> Fill(<<Ntheta, out_c, in_c, kernel_size, kernel_size>>, pattern)]

\* The arguments of a se2n_se2n call other than the input.
se2n_se2n_args(in_c, out_c, kernel_size, orientations_nb, periodicity, diskMask, padding, pattern) ==
    [cls |-> "se2n_se2n", periodicity |-> periodicity, diskMask |-> diskMask,
     padding |-> padding,
     kernel |-> Fill(<<orientations_nb, out_c, in_c, kernel_size, kernel_size>>, pattern)]

GconvInit ==
    /\ \E in_c \in 1..ValChannels, out_c \in 1..ValChannels, kernel_size \in GconvKernelSides,
          pattern \in Patterns, padding \in Paddings :
          \E N \in ExactNthetas(DefaultPeriodicity) :
             /\ \/ \E stride \in Strides :
                      /\ layer = NN_se2n_se2n_new(in_c, out_c, kernel_size, N, stride,
                                                  padding, pattern)
                      /\ wanted = [periodicity |-> DefaultPeriodicity,
                                   diskMask |-> DefaultDiskMask]
                \/ \E periodicity \in Periodicities, diskMask \in BOOLEAN :
                      /\ N \in ExactNthetas(periodicity)
                      /\ layer = se2n_se2n_args(in_c, out_c, kernel_size, N,
                                                periodicity, diskMask, padding, pattern)
                      /\ wanted = [periodicity |-> periodicity, diskMask |-> diskMask]
             /\ \E B \in 1..ValBatch, side \in GconvInputSides :
                   input = Fill(<<B, N, in_c, side, side>>, pattern)
    /\ result = NoResult
    /\ net = NoNet
    /\ fwd = NoFwd

\* forward(input) of the group convolution layer.
GconvForward ==
    /\ layer.cls = "NN_se2n_se2n"
    /\ result' = NN_se2n_se2n_conv_forward(input, layer.kernel, layer.stride, layer.padding)
    /\ UNCHANGED <<layer, input, wanted, net, fwd>>

\* A call se2n_se2n(input, kernel, periodicity, diskMask, padding).
GconvCall ==
    /\ layer.cls = "se2n_se2n"
    /\ result' = se2n_se2n(input, layer.kernel, layer.periodicity, layer.diskMask,
                           layer.padding)
    /\ UNCHANGED <<layer, input, wanted, net, fwd>>

GconvNext == GconvForward \/ GconvCall

GconvSpec == GconvInit /\ [][GconvNext]_vars

-----------------------------------------------------------------------------
(* Claims on the group convolution                                         *)

\* Entry (y, x) of the plane of the kernel family for shift s, output channel
\* o, input channel i and orientation position t, in the layout each
\* implementation documents for what it returns: [N, cOUT, cIN, N, H, W] in
\* layers.py, [N, H, W, cIN, cOUT, N] in rototranslation.py.
FamilyAt(r, s, o, i, t, y, x) ==
    IF r.cls = "NN_se2n_se2n"
    THEN At(r.stack, <<s, o, i, t, y, x>>)
    ELSE At(r.stack, <<s, y, x, i, o, t>>)

\* Stride and padding of the convolution the group layer issues.
GconvStride(l) == IF l.cls = "NN_se2n_se2n" THEN l.stride ELSE 1
GconvPadding(l) == IF l.cls = "NN_se2n_se2n" THEN l.padding ELSE "valid"

\* C14: output[b, s, o] is the sum over t, i of the 2D convolution of
\* input[b, t, i] with the family plane (s, o, i, t): input and kernel are
\* merged with the same index t*channelsIn + i, the output with s*channelsOut + o.
C14_MergedAxesAgree ==
    result.status = "ok" =>
        LET K  == layer.kernel
            N  == K.shape[1]
            cO == K.shape[2]
            cI == K.shape[3]
            kH == K.shape[4]
            kW == K.shape[5]
            wanted2d == Tensor(<<N * cO, N * cI, kH, kW>>,
                           [n \in 1..(N * cO * N * cI * kH * kW) |->
                               LET j == Unravel(<<N, cO, N, cI, kH, kW>>, n - 1)
                               IN  FamilyAt(result, j[1], j[2], j[4], j[3], j[5], j[6])])
            in2d == input_tensor_as_if_2D(input, N, cI)
            S == result.output.shape
        IN  \A b \in 0..(S[1] - 1), s \in 0..(N - 1), o \in 0..(cO - 1),
               y \in 0..(S[4] - 1), x \in 0..(S[5] - 1) :
               At(result.output, <<b, s, o, y, x>>) =
                   conv2d_entry(in2d, wanted2d, GconvStride(layer), GconvPadding(layer),
                                b, s * cO + o, y, x)

\* C15: the family plane for shift s, output channel o, input channel i and
\* orientation position t is kernel[(t - s) mod N, o, i] rotated in the plane
\* by angle index s: the orientation axis is rolled by exactly s.
C15_OrientationRolledByShift ==
    result.status # "none" =>
        LET K  == layer.kernel
            N  == K.shape[1]
            cO == K.shape[2]
            cI == K.shape[3]
            H  == K.shape[4]
            W  == K.shape[5]
            entries == MultiRotationOperatorMatrixSparse(H, W, N, result.rot.periodicity,
                                                         result.rot.diskMask)
            plane == [t \in 0..(N - 1) |-> select(K, 1, t)]
        IN  \A s \in 0..(N - 1), t \in 0..(N - 1), o \in 0..(cO - 1), i \in 0..(cI - 1),
               y \in 0..(H - 1), x \in 0..(W - 1) :
               FamilyAt(result, s, o, i, t, y, x) =
                   RotatedPlaneEntry(entries, plane[(t - s) % N], o, i, s, y, x)

-----------------------------------------------------------------------------
(* The equivariant blocks of layers.py, one statement of forward per step  *)

\* __init__ of roto_encoder_block, roto_decoder_block and
\* roto_decoder_skip_block: the sub-layers and what they are built with.
roto_block_init(cls, in_c, out_c, kernel_size, Ntheta) ==
    [cls |-> cls, Ntheta |-> Ntheta, out |-> out_c,
     bn |-> out_c * Ntheta,
     bn2 |-> out_c,
     lifting |-> NN_z2_se2n_init(in_c, out_c, kernel_size, Ntheta, 1, "same"),
     conv |-> NN_se2n_se2n_init(out_c, out_c, kernel_size, Ntheta, 1, "same")]

\* Lines 363-366 and 369-372 (and their copies in the decoders): merge the
\* orientation and channel axes, normalise, activate, split again.
NormActSE2 == <<"merge", "bn", "relu", "split">>

\* The statements of forward, in the order of the source.
roto_encoder_block_forward ==
    <<"lifting">> \o NormActSE2 \o <<"conv">> \o NormActSE2
        \o <<"max", "relu", "maxpool", "bn2", "relu">>

roto_decoder_block_forward ==
    <<"up", "lifting">> \o NormActSE2 \o <<"conv">> \o NormActSE2
        \o <<"max", "bn2", "relu">>

roto_decoder_skip_block_forward ==
    <<"cat", "up", "lifting">> \o NormActSE2 \o <<"conv">> \o NormActSE2
        \o <<"max", "bn2", "relu">>

forward_of(cls) ==
    CASE cls = "roto_encoder_block" -> roto_encoder_block_forward
      [] cls = "roto_decoder_block" -> roto_decoder_block_forward
      [] cls = "roto_decoder_skip_block" -> roto_decoder_skip_block_forward

\* nn.BatchNorm2d(num_features) on x [B, C, H, W].
BatchNorm2d(num_features, x) ==
    IF Len(x) # 4 \/ x[2] # num_features THEN Raise("RuntimeError") ELSE Ok(x)

\* torch.nn.MaxPool2d(2) on x [B, C, H, W].
MaxPool2d(x) ==
    IF Len(x) # 4 \/ x[3] < 2 \/ x[4] < 2 THEN Raise("RuntimeError")
    ELSE Ok(<<x[1], x[2], x[3] \div 2, x[4] \div 2>>)

\* The shape one statement of forward leaves in x, or the error it raises.
roto_block_statement(l, stmt, x, skip) ==
    CASE stmt = "cat" ->
           IF Len(x) # 4 \/ Len(skip) # 4 \/ x[1] # skip[1] \/ x[3] # skip[3] \/ x[4] # skip[4]
           THEN Raise("RuntimeError")
           ELSE Ok(<<x[1], x[2] + skip[2], x[3], x[4]>>)
      [] stmt = "up" -> Ok(<<x[1], x[2], 2 * x[3], 2 * x[4]>>)
      [] stmt = "lifting" ->
           LET r == forward_shape(l.lifting, x) IN [status |-> r.status, shape |-> r.shape]
      [] stmt = "conv" ->
           LET r == forward_shape(l.conv, x) IN [status |-> r.status, shape |-> r.shape]
      [] stmt = "merge" -> reshape_shape(x, <<x[1], x[2] * x[3], x[4], x[5]>>)
      [] stmt = "split" -> reshape_shape(x, <<x[1], l.Ntheta, l.out, x[3], x[4]>>)
      [] stmt = "bn" -> BatchNorm2d(l.bn, x)
      [] stmt = "bn2" -> BatchNorm2d(l.bn2, x)
      [] stmt = "relu" -> Ok(x)
      [] stmt = "max" -> Ok(<<x[1], x[3], x[4], x[5]>>)
      [] stmt = "maxpool" -> MaxPool2d(x)

RotoBlocks == {"roto_encoder_block", "roto_decoder_block", "roto_decoder_skip_block"}

BlockInit ==
    /\ \E cls \in RotoBlocks, in_c \in 1..MaxChannels, out_c \in 1..MaxChannels,
          kernel_size \in 1..MaxKernelSize, Ntheta \in 1..MaxNtheta :
          layer = roto_block_init(cls, in_c, out_c, kernel_size, Ntheta)
    /\ \E B \in 1..MaxBatch, C \in 1..MaxChannels, S \in 0..1, H \in 1..MaxSide :
          input = [shape |-> <<B, C, H, H>>, skip |-> <<B, S, H, H>>]
    /\ fwd = [pc |-> 0, x |-> <<>>, done |-> <<>>, status |-> "idle"]
    /\ result = NoResult
    /\ wanted = NoResult
    /\ net = NoNet

\* forward(inputs) or forward(inputs, skip) is entered.
BlockForward ==
    /\ fwd.status \in {"idle", "returned"}
    /\ fwd' = [pc |-> 1, x |-> input.shape, done |-> <<>>, status |-> "running"]
    /\ result' = NoResult
    /\ UNCHANGED <<layer, input, wanted, net>>

\* The next statement of forward runs; an error ends the call.
BlockStatement ==
    /\ fwd.status = "running"
    /\ fwd.pc <= Len(forward_of(layer.cls))
    /\ LET stmt == forward_of(layer.cls)[fwd.pc]
           r == roto_block_statement(layer, stmt, fwd.x, input.skip)
       IN  IF r.status = "ok"
           THEN /\ fwd' = [fwd EXCEPT !.pc = @ + 1, !.x = r.shape,
                                       !.done = Append(@, stmt)]
                /\ UNCHANGED result
           ELSE /\ fwd' = [fwd EXCEPT !.status = "returned"]
                /\ result' = [status |-> r.status]
    /\ UNCHANGED <<layer, input, wanted, net>>

\* return x
BlockReturn ==
    /\ fwd.status = "running"
    /\ fwd.pc > Len(forward_of(layer.cls))
    /\ fwd' = [fwd EXCEPT !.status = "returned"]
    /\ result' = [status |-> "ok", output |-> fwd.x]
    /\ UNCHANGED <<layer, input, wanted, net>>

BlockNext == BlockForward \/ BlockStatement \/ BlockReturn

BlockSpec == BlockInit /\ [][BlockNext]_vars

-----------------------------------------------------------------------------
(* Claims on the equivariant blocks                                        *)

\* The statements that are not reshapes, in the order they ran.
Computation(done) == SelectSeq(done, LAMBDA st : st \notin {"merge", "split"})

\* C16: the encoder block runs lifting, normalise, activate, group
\* convolution, normalise, activate, orientation maximum, final normalise,
\* final activate and only then the spatial max-pool.
C16_EncoderStepOrder ==
    (layer.cls = "roto_encoder_block" /\ result.status = "ok") =>
        Computation(fwd.done) =
            <<"lifting", "bn", "relu", "conv", "bn", "relu", "max", "bn2", "relu", "maxpool">>

-----------------------------------------------------------------------------
(* Claims on the hourglass wiring                                          *)

\* The calls whose first argument is the result of a call to attribute a.
FedBy(j, k, a) ==
    /\ Len(fwd.calls[j].args) >= k
    /\ fwd.calls[j].args[k].src \in CallsTo(a)

\* C17: within one forward, encoder 1 takes the network input and encoder i
\* the output of encoder i-1; every encoder has run before any decoder; the
\* deepest decoder takes the deepest encoder's output, every other decoder
\* the output of the decoder one scale deeper, plus the skip feature computed
\* from the same scale's encoder output where that scale has one; no block
\* runs twice, and every block has run once when forward returns.
C17_ForwardWiring ==
    (net.status = "ok" /\ fwd.pc # "idle") =>
        LET n == net.num_scales
        IN  /\ \A a \in DOMAIN net.blocks :
                  /\ Cardinality(CallsTo(a)) <= 1
                  /\ fwd.pc = "done" => Cardinality(CallsTo(a)) = 1
            /\ \A j \in CallsTo(Attr("e", 1)) : fwd.calls[j].args = <<fwd.inputs>>
            /\ \A i \in 2..n : \A j \in CallsTo(Attr("e", i)) :
                  /\ Len(fwd.calls[j].args) = 1
                  /\ FedBy(j, 1, Attr("e", i - 1))
            /\ \A i \in 1..n : \A j \in CallsTo(Attr("d", i)) :
                  /\ \A k \in 1..n : \E m \in CallsTo(Attr("e", k)) : m < j
                  /\ IF i = n THEN FedBy(j, 1, Attr("e", n))
                               ELSE FedBy(j, 1, Attr("d", i + 1))
                  /\ IF net.num_channels_skip[i] # 0
                     THEN /\ Len(fwd.calls[j].args) = 2
                          /\ FedBy(j, 2, Attr("s", i))
                     ELSE Len(fwd.calls[j].args) = 1
            /\ \A i \in 1..n : \A j \in CallsTo(Attr("s", i)) :
                  /\ Len(fwd.calls[j].args) = 1
                  /\ FedBy(j, 1, Attr("e", i))

C17_Witness ==
    /\ net.status = "ok"
    /\ fwd.pc = "done"
    /\ net.num_scales = 4
    /\ net.num_channels_skip[2] # 0
    /\ net.num_channels_skip[4] = 0

\* The channel count of what a block convolves: its argument, or its two
\* arguments concatenated along the channel axis (layers.py:323 for
\* roto_decoder_skip_block; decoder_block of src.hourglass_network likewise).
Received(args) ==
    IF Len(args) = 1 THEN args[1].ch ELSE args[1].ch + args[2].ch

\* C19: every encoder, skip and decoder block called in forward was built
\* with the input channel count of what it receives, and the final 1x1
\* convolution receives num_channels_up[0] channels, which is what it was
\* built for.
C19_ChannelConsistency ==
    net.status = "ok" =>
        \A j \in 1..Len(fwd.calls) :
            LET call == fwd.calls[j]
            IN  /\ call.attr \in DOMAIN net.blocks =>
                       net.blocks[call.attr].in_c = Received(call.args)
                /\ call.attr = Attr("conv", 0) =>
                       /\ Received(call.args)
                            = Get(per_scale(wanted.num_channels_up, wanted.num_scales), 0)
                       /\ net.conv.in_c = Received(call.args)

C19_Witness ==
    /\ net.status = "ok"
    /\ fwd.pc = "done"
    /\ net.num_scales = 3
    /\ net.blocks[Attr("d", 2)].cls = "roto_decoder_skip_block"
    /\ net.blocks[Attr("e", 2)].out_c # net.blocks[Attr("e", 3)].out_c
    /\ \E j \in CallsTo(Attr("d", 2)) : Received(fwd.calls[j].args)
                                          = net.blocks[Attr("d", 3)].out_c
                                            + net.blocks[Attr("s", 2)].out_c

-----------------------------------------------------------------------------
(* Specification of a layer under training: forwards and kernel updates    *)

MaxEvents == 3
TrainChannels == {1, 2}
TrainKernelSides == {1, 2}
TrainInputSide == 3

\* The inputs a layer of the given kind and sizes is called with.
TrainInputs(l) ==
    {Fill(IF l.cls = "NN_z2_se2n"
          THEN <<1, l.kernel.shape[2], TrainInputSide, TrainInputSide>>
          ELSE <<1, l.kernel.shape[1], l.kernel.shape[3], TrainInputSide, TrainInputSide>>,
          pattern) : pattern \in Patterns}

TrainInit ==
    /\ \E in_c \in TrainChannels, out_c \in TrainChannels, kernel_size \in TrainKernelSides,
          Ntheta \in ExactNthetas(DefaultPeriodicity), pattern \in Patterns :
          \/ layer = NN_z2_se2n_new(in_c, out_c, kernel_size, Ntheta, 1, "same", pattern)
          \/ layer = NN_se2n_se2n_new(in_c, out_c, kernel_size, Ntheta, 1, "same", pattern)
    /\ input \in TrainInputs(layer)
    /\ wanted = [periodicity |-> DefaultPeriodicity, diskMask |-> DefaultDiskMask]
    /\ result = NoResult
    /\ net = NoNet
    /\ fwd = [trace |-> <<>>]

\* forward(input) of the lifting layer, on any input.
TrainLiftForward ==
    /\ layer.cls = "NN_z2_se2n"
    /\ Len(fwd.trace) < MaxEvents
    /\ input' \in TrainInputs(layer)
    /\ result' = NN_z2_se2n_conv_forward(input', layer.kernel, layer.Ntheta,
                                         layer.stride, layer.padding)
    /\ fwd' = [trace |-> Append(fwd.trace, "forward")]
    /\ UNCHANGED <<layer, wanted, net>>

\* forward(input) of the group convolution layer, on any input.
TrainGconvForward ==
    /\ layer.cls = "NN_se2n_se2n"
    /\ Len(fwd.trace) < MaxEvents
    /\ input' \in TrainInputs(layer)
    /\ result' = NN_se2n_se2n_conv_forward(input', layer.kernel, layer.stride, layer.padding)
    /\ fwd' = [trace |-> Append(fwd.trace, "forward")]
    /\ UNCHANGED <<layer, wanted, net>>

\* The kernel is a Parameter: an optimiser step outside the layer replaces
\* its value by another one of the same shape.
KernelUpdate ==
    /\ Len(fwd.trace) < MaxEvents
    /\ \E pattern \in Patterns :
          /\ Fill(layer.kernel.shape, pattern) # layer.kernel
          /\ layer' = [layer EXCEPT !.kernel = Fill(layer.kernel.shape, pattern)]
    /\ fwd' = [trace |-> Append(fwd.trace, "update")]
    /\ UNCHANGED <<input, wanted, result, net>>

TrainNext == TrainLiftForward \/ TrainGconvForward \/ KernelUpdate

TrainSpec == TrainInit /\ [][TrainNext]_vars

-----------------------------------------------------------------------------
(* Claims on a layer under training                                        *)

\* The rotated (and shifted) kernel stack of the layer's kernel.
StackOf(l) ==
    IF l.cls = "NN_z2_se2n"
    THEN rotate_lifting_kernels(l.kernel, l.Ntheta, DefaultPeriodicity, DefaultDiskMask)
    ELSE rotate_gconv_kernels(l.kernel, DefaultPeriodicity, DefaultDiskMask)

\* The convolution of x with a kernel stack, as the layer l merges and
\* splits the axes.
OutputFrom(l, x, kernel_stack) ==
    IF l.cls = "NN_z2_se2n"
    THEN split_orientation(
             conv2d(x, kernels_as_if_2D(kernel_stack, l.Ntheta, l.kernel),
                    l.stride, l.padding),
             l.Ntheta, l.kernel.shape[1])
    ELSE split_orientation(
             conv2d(input_tensor_as_if_2D(x, l.kernel.shape[1], l.kernel.shape[3]),
                    reshape(kernel_stack,
                            <<l.kernel.shape[1] * l.kernel.shape[2],
                              l.kernel.shape[1] * l.kernel.shape[3],
                              l.kernel.shape[4], l.kernel.shape[5]>>),
                    l.stride, l.padding),
             l.kernel.shape[1], l.kernel.shape[2])

\* C18: a forward leaves the layer (kernel, orientation count, stride,
\* padding) as it was, and the stack and output it produces are those of the
\* kernel the layer holds at that call and of the input of that call,
\* whatever forwards and kernel updates came before.
C18_NoStaleKernels ==
    [][ (fwd'.trace # fwd.trace /\ Last(fwd'.trace) = "forward") =>
            /\ layer' = layer
            /\ result'.stack = StackOf(layer)
            /\ result'.status = "ok" =>
                   result'.output = OutputFrom(layer, input', StackOf(layer)) ]_vars

C18_Witness ==
    /\ fwd.trace = <<"forward", "update", "forward">>
    /\ layer.cls = "NN_se2n_se2n"
    /\ result.status = "ok"
    /\ result.stack = StackOf(layer)

-----------------------------------------------------------------------------
(* Specification of the functional layers of rototranslation.py            *)

FuncKernelSides == {1, 2, 3}
FuncInputHeight == 3
FuncInputWidths == {3, 4}

FuncInit ==
    /\ \E in_c \in TrainChannels, out_c \in TrainChannels, kernel_size \in FuncKernelSides,
          pattern \in Patterns, padding \in Paddings, periodicity \in Periodicities :
       \E N \in ExactNthetas(periodicity), B \in 1..ValBatch, W \in FuncInputWidths :
          /\ wanted = [periodicity |-> periodicity, diskMask |-> DefaultDiskMask]
          /\ \/ /\ layer = z2_se2n_args(in_c, out_c, kernel_size, N, periodicity,
                                         DefaultDiskMask, padding, pattern)
                /\ input = Fill(<<B, in_c, FuncInputHeight, W>>, pattern)
             \/ /\ layer = se2n_se2n_args(in_c, out_c, kernel_size, N, periodicity,
                                           DefaultDiskMask, padding, pattern)
                /\ input = Fill(<<B, N, in_c, FuncInputHeight, W>>, pattern)
    /\ result = NoResult
    /\ net = NoNet
    /\ fwd = NoFwd

FuncNext == LiftCall \/ GconvCall

FuncSpec == FuncInit /\ [][FuncNext]_vars

-----------------------------------------------------------------------------
(* Claims on the functional layers                                         *)

\* The call of the functional layer l on x with padding p in place of l's.
FuncCall(l, x, p) ==
    IF l.cls = "z2_se2n"
    THEN z2_se2n(x, l.kernel, l.orientations_nb, l.periodicity, l.diskMask, p)
    ELSE se2n_se2n(x, l.kernel, l.periodicity, l.diskMask, p)

\* Height and width of a tensor: its last two axes.
Spatial(t) == <<t.shape[Len(t.shape) - 1], t.shape[Len(t.shape)]>>

\* C20: a call of z2_se2n or se2n_se2n returns an output of spatial size
\* (H - kernelH + 1) x (W - kernelW + 1) whatever its padding argument is,
\* and the same result as with the other padding value.
C20_PaddingIgnored ==
    (layer.cls \in {"z2_se2n", "se2n_se2n"} /\ result.status # "none") =>
        /\ result.status = "ok"
        /\ Spatial(result.output)
             = <<Spatial(input)[1] - Spatial(layer.kernel)[1] + 1,
                 Spatial(input)[2] - Spatial(layer.kernel)[2] + 1>>
        /\ \A p \in Paddings \ {layer.padding} : result = FuncCall(layer, input, p)

C20_Witness ==
    /\ layer.cls = "se2n_se2n"
    /\ layer.padding = "same"
    /\ Spatial(layer.kernel) = <<3, 3>>
    /\ Spatial(input) = <<3, 4>>
    /\ result.status = "ok"
    /\ Spatial(result.output) = <<1, 2>>

====
